---- MODULE Spec2Model ----
(***************************************************************************)
(* Model of optirun, the Bumblebee launcher client (src/src/optirun.c).    *)
(* Strings are sequences of one-character strings, so that getopt, strncmp *)
(* and the first-byte dispatch work on characters as the C code does.      *)
(* C array indices are 0-based: argv[i] of the source is argv[i + 1] here. *)
(***************************************************************************)
EXTENDS Integers, Sequences, FiniteSets, TLC

(* ------------------------------------------------------------------ *)
(* Bounds                                                              *)
(* ------------------------------------------------------------------ *)
\* Largest number of command-line words after the program name.
MaxArgs == 3

(* ------------------------------------------------------------------ *)
(* Program constants                                                   *)
(* ------------------------------------------------------------------ *)
EXIT_SUCCESS == 0
EXIT_FAILURE == 1
\* Size of the configuration and reply buffers (bbconfig.h).
BUFFER_SIZE == 256
\* Value of a closed socket handle (the read loops test against it).
SOCK_CLOSED == 0 - 1
\* Handle returned by a successful socketConnect.
SOCK_FD == 3

BB_RUN_APP == "BB_RUN_APP"
BB_RUN_STATUS == "BB_RUN_STATUS"

VERB_NONE == "VERB_NONE"
VERB_WARN == "VERB_WARN"
VERB_INFO == "VERB_INFO"
VERB_DEBUG == "VERB_DEBUG"

SIGHUP == "SIGHUP"
SIGINT == "SIGINT"
SIGQUIT == "SIGQUIT"
SIGTERM == "SIGTERM"
Signals == {SIGHUP, SIGINT, SIGQUIT, SIGTERM}

\* No exit status yet: the process has not exited.
NoStatus == 0 - 1

\* getopt's end-of-options result (-1 in C).
EOF == "EOF"

\* The option string given to getopt.
OptString ==
  <<"+", "c", "v", "V", "m", ":", "X", ":", "l", ":", "u", ":",
    "h", "|", "h", "e", "l", "p">>

StatusRequest == <<"S", "t", "a", "t", "u", "s", "?">>
AppRequest ==
  <<"C", "h", "e", "c", "k", "i", "n", "g", " ", "a", "v", "a", "i", "l",
    "a", "b", "i", "l", "i", "t", "y", ".", ".", ".">>

STR_proxy == <<"p", "r", "o", "x", "y">>
STR_jpeg == <<"j", "p", "e", "g">>
STR_prox == <<"p", "r", "o", "x">>
STR_vglrun == <<"v", "g", "l", "r", "u", "n">>
STR_vglclient == <<"v", "g", "l", "c", "l", "i", "e", "n", "t">>
STR_detach == <<"-", "d", "e", "t", "a", "c", "h">>
STR_c == <<"-", "c">>
STR_d == <<"-", "d">>
STR_ld == <<"-", "l", "d">>
STR_dashdash == <<"-", "-">>
\* The null pointer that terminates an argument vector.
NULL == <<"NULL">>

(* ------------------------------------------------------------------ *)
(* Inputs                                                              *)
(* ------------------------------------------------------------------ *)
ProgName == <<"o", "p", "t", "i", "r", "u", "n">>

\* Command-line words the invocations are built from (-m takes the word
\* after it as the method, whatever it is).
Words ==
  { <<"-", "q">>, <<"-", "v">>, <<"-", "h">>, <<"-", "m">>,
    <<"-", "-">>, <<"a", "p", "p">> }

RECURSIVE SeqsUpTo(_, _)
SeqsUpTo(S, n) ==
  IF n = 0 THEN {<<>>}
  ELSE LET shorter == SeqsUpTo(S, n - 1)
       IN shorter \cup {Append(s, w) : s \in {t \in shorter : Len(t) = n - 1}, w \in S}

Invocations == {<<ProgName>> \o s : s \in SeqsUpTo(Words, MaxArgs)}

\* Compression methods read_configuration may leave in bb_config.
ConfiguredMethods == {STR_jpeg, STR_proxy, STR_prox}

\* Replies the daemon may send (only the first byte is classified).
Replies == { <<"N", "o">>, <<"Y", "e", "s">>, <<"E", "r", "r">>, <<"y">> }

\* Exit statuses of the wrapped command.
ChildStatuses == {0, 1}

(* ------------------------------------------------------------------ *)
(* String helpers of the C library                                     *)
(* ------------------------------------------------------------------ *)
Min(a, b) == IF a < b THEN a ELSE b

\* snprintf(dst, n, "%s", src): at most n - 1 characters are stored.
Snprintf(n, src) == SubSeq(src, 1, Min(Len(src), n - 1))

\* Character i (1-based) of a C string, "NUL" at and past its end.
CharAt(s, i) == IF i <= Len(s) THEN s[i] ELSE "NUL"

\* strncmp(a, b, n): 0 when the first n characters (up to NUL) agree.
RECURSIVE StrncmpFrom(_, _, _, _)
StrncmpFrom(a, b, n, i) ==
  IF i > n THEN 0
  ELSE IF CharAt(a, i) # CharAt(b, i) THEN 1
  ELSE IF CharAt(a, i) = "NUL" THEN 0
  ELSE StrncmpFrom(a, b, n, i + 1)

strncmp(a, b, n) == StrncmpFrom(a, b, n, 1)

\* strchr over a sequence: index of the first occurrence, 0 when absent.
IndexOf(s, ch) ==
  IF \E i \in 1..Len(s) : s[i] = ch
  THEN CHOOSE i \in 1..Len(s) : s[i] = ch /\ \A j \in 1..(i - 1) : s[j] # ch
  ELSE 0

(* ------------------------------------------------------------------ *)
(* getopt                                                              *)
(* ------------------------------------------------------------------ *)
\* The option characters proper: a leading '+' only selects the
\* stop-at-first-non-option ordering and is not an option itself.
ShortOpts(optstring) ==
  IF Len(optstring) > 0 /\ optstring[1] = "+" THEN Tail(optstring) ELSE optstring

\* One call of getopt(argc, argv, optstring), resuming at C index oi with
\* nc the position (1-based) of the next character inside a cluster of
\* short options, 0 when a new word has to be fetched.
getopt(av, optstring, oi, nc) ==
  LET ac == Len(av)
      opts == ShortOpts(optstring)
      done(i) == [c |-> EOF, optind |-> i, nextchar |-> 0, optarg |-> <<>>]
  IN IF nc = 0 /\ oi >= ac THEN done(oi)
     ELSE IF nc = 0 /\ av[oi + 1] = STR_dashdash THEN done(oi + 1)
     ELSE IF nc = 0 /\ (Len(av[oi + 1]) < 2 \/ av[oi + 1][1] # "-") THEN done(oi)
     ELSE
       LET tok == av[oi + 1]
           pos == IF nc = 0 THEN 2 ELSE nc
           ch == tok[pos]
           atEnd == pos = Len(tok)
           k == IndexOf(opts, ch)
           oiNext == IF atEnd THEN oi + 1 ELSE oi
           ncNext == IF atEnd THEN 0 ELSE pos + 1
       IN IF k = 0 \/ ch = ":" \/ ch = ";"
          THEN [c |-> "?", optind |-> oiNext, nextchar |-> ncNext, optarg |-> <<>>]
          ELSE IF k < Len(opts) /\ opts[k + 1] = ":"
          THEN IF ~atEnd
               THEN [c |-> ch, optind |-> oi + 1, nextchar |-> 0,
                     optarg |-> SubSeq(tok, pos + 1, Len(tok))]
               ELSE IF oi + 1 >= ac
               THEN [c |-> "?", optind |-> oi + 1, nextchar |-> 0, optarg |-> <<>>]
               ELSE [c |-> ch, optind |-> oi + 2, nextchar |-> 0,
                     optarg |-> av[oi + 2]]
          ELSE [c |-> ch, optind |-> oiNext, nextchar |-> ncNext, optarg |-> <<>>]

(* ------------------------------------------------------------------ *)
(* State                                                               *)
(* ------------------------------------------------------------------ *)
VARIABLES
  argv,          \* the command line, argv[0] first
  optind,        \* getopt's index of the next word (C index)
  nextchar,      \* getopt's position inside a cluster of options
  bb_config,     \* vgl_compress, x_display, ld_path, socket_path
  verbosity,     \* bb_status.verbosity
  runmode,       \* bb_status.runmode
  bb_socket,     \* bb_status.bb_socket
  pc,            \* position of main
  buffer,        \* reply buffer of main
  r,             \* result of the last socketRead
  vglrun_args,   \* the wrapper's argument vector
  children,      \* processes started and not yet known to have exited
  sent,          \* requests written to the socket, in order
  spawns,        \* spawn operations invoked, in order
  connects,      \* handles returned by the socketConnect calls, in order
  reads,         \* number of replies with data received
  readCalled,    \* a socketRead has been called
  printed,       \* "Bumblebee status" lines printed, in order
  dispatched,    \* first bytes the application switch has dispatched on
  stopped,       \* bb_stop_all has run
  usage,         \* print_usage has printed the help text
  exitStatus,    \* exit status of the process, NoStatus while it runs
  wrapperStatus, \* exit status of the wrapper, NoStatus until it exits
  sigLog,        \* kinds of message the handler has logged
  termInLoop     \* a terminating signal arrived in a read loop, socket
                 \* open, no reply received yet

parse == <<argv, optind, nextchar>>
conf == <<bb_config, verbosity, runmode>>
io == <<buffer, r, sent, reads, readCalled, printed, dispatched>>
procs == <<vglrun_args, children, spawns, wrapperStatus>>
hist == <<connects, stopped, usage, sigLog, termInLoop>>
vars == <<parse, conf, io, procs, hist, bb_socket, pc, exitStatus>>

argc == Len(argv)

\* argv + optind: the words from C index optind up to the end.
ArgvFrom(av, oi) == SubSeq(av, oi + 1, Len(av))

Init ==
  /\ argv \in Invocations
  /\ optind = 1
  /\ nextchar = 0
  /\ bb_config \in [vgl_compress : ConfiguredMethods,
                    x_display : {<<":", "8">>},
                    ld_path : {<<"/", "l", "i", "b">>},
                    socket_path : {<<"/", "s", "o", "c", "k">>}]
  /\ verbosity = VERB_WARN
  /\ runmode = BB_RUN_APP
  /\ bb_socket = 0
  /\ pc = "getopt"
  /\ buffer = <<>>
  /\ r = 0
  /\ vglrun_args = <<>>
  /\ children = {}
  /\ sent = <<>>
  /\ spawns = <<>>
  /\ connects = <<>>
  /\ reads = 0
  /\ readCalled = FALSE
  /\ printed = <<>>
  /\ dispatched = <<>>
  /\ stopped = FALSE
  /\ usage = FALSE
  /\ exitStatus = NoStatus
  /\ wrapperStatus = NoStatus
  /\ sigLog = {}
  /\ termInLoop = FALSE

(* ------------------------------------------------------------------ *)
(* Collaborators outside optirun.c (bbsocket.c, bbrun.c, bblogger.c)    *)
(* ------------------------------------------------------------------ *)
\* socketClose(&sock): the handle becomes the closed value.
socketClose(sock) == SOCK_CLOSED

\* socketConnect: a handle on success, a negative value on failure.
socketConnectResults == {SOCK_FD, SOCK_CLOSED}

\* socketWrite(&sock, buf, len): nothing is written on a closed handle; a
\* failed write means the peer disappeared and closes the handle.
socketWriteResults(sock) ==
  IF sock = SOCK_CLOSED THEN {[written |-> FALSE, sock |-> sock]}
  ELSE {[written |-> TRUE, sock |-> sock],
        [written |-> TRUE, sock |-> socketClose(sock)]}

\* socketRead(&sock, buf, len): data, nothing yet, or the closed
\* indication (which closes the handle); a closed handle yields no data.
socketReadResults(sock) ==
  IF sock = SOCK_CLOSED THEN {[r |-> 0, data |-> <<>>, sock |-> sock]}
  ELSE {[r |-> Len(d), data |-> d, sock |-> sock] : d \in Replies}
       \cup {[r |-> 0, data |-> <<>>, sock |-> sock],
             [r |-> 0, data |-> <<>>, sock |-> socketClose(sock)]}

\* bb_run_exec(argv) when execution fails: the error is reported and the
\* process exits with a failure status.
bb_run_exec_failure == EXIT_FAILURE

(* ------------------------------------------------------------------ *)
(* Pieces of main                                                      *)
(* ------------------------------------------------------------------ *)
\* The case label the option switch selects for getopt's result.
OptionCase(c) ==
  IF c \in {"h", "q", "v", "X", "l", "u", "m"} THEN c ELSE "default"

\* case 'v': -v -v is very verbose.
Verbose(v) == IF v = VERB_INFO THEN VERB_DEBUG ELSE VERB_INFO

\* Variant: the run mode is never changed to status.
ResolveRunmode_never(mode, oi, ac) == mode

\* Variant: the test for a missing application is off by one.
ResolveRunmode_strict(mode, oi, ac) ==
  IF mode = BB_RUN_APP /\ oi > ac THEN BB_RUN_STATUS ELSE mode

\* Status mode when no application is given.
ResolveRunmode(mode, oi, ac) ==
  IF mode = BB_RUN_APP /\ oi >= ac THEN BB_RUN_STATUS ELSE mode

\* Variant: the handle is tested against 0 instead of for being negative.
ConnectFailed_zero(sock) == sock = 0

\* The connection attempt failed.
ConnectFailed(sock) == sock < 0

\* Variant: the verdict byte is compared without regard to case.
Dispatch_nocase(buf) ==
  IF buf[1] \in {"N", "n"} THEN "N" ELSE IF buf[1] \in {"Y", "y"} THEN "Y" ELSE "default"

\* switch (buffer[0])
Dispatch(buf) ==
  IF buf[1] = "N" THEN "N" ELSE IF buf[1] = "Y" THEN "Y" ELSE "default"

\* Variant: case 'N' leaves the switch without calling bb_run_exec.
AfterAllow_noexec == "app_loop"

\* Position of main after case 'N' has closed the socket.
AfterAllow == "exec"

\* Variant: argv itself is given to bb_run_exec.
ExecArgs_whole(av, oi) == Append(av, NULL)

\* argv + optind, the vector given to bb_run_exec.
ExecArgs(av, oi) == Append(ArgvFrom(av, oi), NULL)

\* Variant: only the first four characters are compared.
NeedsVglclient_short(cfg) == strncmp(cfg.vgl_compress, STR_proxy, 4) # 0

\* vglclient is run for any method other than proxy.
NeedsVglclient(cfg) == strncmp(cfg.vgl_compress, STR_proxy, BUFFER_SIZE) # 0

vglclient_args == <<STR_vglclient, STR_detach, NULL>>

\* Variant: the copy loop reads argv[r] instead of argv[optind + r].
BuildVglrunArgs_nooptind(cfg, av, oi) ==
  LET n == Len(av) - oi
      fixed == <<STR_vglrun, STR_c, cfg.vgl_compress, STR_d, cfg.x_display,
                 STR_ld, cfg.ld_path, STR_dashdash>>
  IN [i \in 1..(8 + n + 1) |->
        IF i <= 8 THEN fixed[i]
        ELSE IF i <= 8 + n THEN av[i - 8]
        ELSE NULL]

\* The wrapper's argument vector, slot by slot.
BuildVglrunArgs(cfg, av, oi) ==
  LET n == Len(av) - oi
      fixed == <<STR_vglrun, STR_c, cfg.vgl_compress, STR_d, cfg.x_display,
                 STR_ld, cfg.ld_path, STR_dashdash>>
  IN [i \in 1..(8 + n + 1) |->
        IF i <= 8 THEN fixed[i]
        ELSE IF i <= 8 + n THEN av[oi + (i - 8)]
        ELSE NULL]

\* Variant: case SIGHUP lacks its break and falls into the closing case.
ClosesSocket_fallthrough(sig) == sig \in {SIGHUP, SIGINT, SIGQUIT, SIGTERM}

\* Variant: the SIGQUIT label is missing from the closing case.
ClosesSocket_noquit(sig) == sig \in {SIGINT, SIGTERM}

\* Variant: the slot for the terminator is not counted.
VglrunSlots_short(ac, oi) == 8 + ac - oi

\* Number of slots allocated for vglrun_args.
VglrunSlots(ac, oi) == 9 + ac - oi

\* The stores into vglrun_args in program order, as C slot and value.
VglrunWrites(cfg, av, oi) ==
  LET n == Len(av) - oi
  IN <<[slot |-> 0, value |-> STR_vglrun],
       [slot |-> 1, value |-> STR_c],
       [slot |-> 2, value |-> cfg.vgl_compress],
       [slot |-> 3, value |-> STR_d],
       [slot |-> 4, value |-> cfg.x_display],
       [slot |-> 5, value |-> STR_ld],
       [slot |-> 6, value |-> cfg.ld_path],
       [slot |-> 7, value |-> STR_dashdash]>>
     \o [k \in 1..n |-> [slot |-> 8 + (k - 1), value |-> av[oi + (k - 1) + 1]]]
     \o <<[slot |-> 8 + n, value |-> NULL]>>

\* Variant: a reply of a single byte is not taken as data.
StatusPrints_one(res) == res > 1

\* if (r > 0) in the status loop: the reply is printed and the socket closed.
StatusPrints(res) == res > 0

\* Variant: the default case does not close the socket.
SocketAfterCase_default(case, sock) == IF case = "N" THEN socketClose(sock) ELSE sock

\* The socket after the switch has entered a case: 'N' and default close
\* it at once, 'Y' only after the wrapper has been waited for.
SocketAfterCase(case, sock) == IF case = "Y" THEN sock ELSE socketClose(sock)

\* Variant: a read without data breaks out of the loop.
AfterEmptyRead_break == "stop_all"

\* Position of main after a read without data: back to the loop test.
AfterEmptyRead == "app_loop"

\* Variant: a companion that could not be started ends the branch.
AfterForkClient_fatal(ok) == IF ok THEN "build_args" ELSE "close_after_wait"

\* Position of main after bb_run_fork, whose result is not looked at.
AfterForkClient(ok) == "build_args"

\* The signals on which the handler closes the socket.
ClosesSocket(sig) == sig \in {SIGINT, SIGQUIT, SIGTERM}

\* Exit status main returns after bb_stop_all.
MainReturn == EXIT_SUCCESS

ReadLoopPcs ==
  {"status_loop", "status_read", "status_print",
   "app_loop", "app_read", "app_dispatch"}

Running == pc \notin {"exited", "replaced"}

(* ------------------------------------------------------------------ *)
(* handle_signal                                                       *)
(* ------------------------------------------------------------------ *)
\* A signal is delivered and handled while main is running.
handle_signal(sig) ==
  /\ Running
  /\ sigLog' = sigLog \cup {IF sig = SIGHUP THEN "ignoring" ELSE "received"}
  /\ bb_socket' = IF ClosesSocket(sig) THEN socketClose(bb_socket) ELSE bb_socket
  /\ termInLoop' = (termInLoop \/ (/\ sig \in {SIGINT, SIGQUIT, SIGTERM}
                                   /\ pc \in ReadLoopPcs
                                   /\ bb_socket = SOCK_FD
                                   /\ reads = 0))
  /\ UNCHANGED <<parse, conf, io, procs, connects, stopped, usage, pc, exitStatus>>

Signal == \E sig \in Signals : handle_signal(sig)

(* ------------------------------------------------------------------ *)
(* main                                                                *)
(* ------------------------------------------------------------------ *)
\* One iteration of the option loop: getopt and the switch on its result.
ParseOption ==
  /\ pc = "getopt"
  /\ LET g == getopt(argv, OptString, optind, nextchar)
         case == IF g.c = EOF THEN EOF ELSE OptionCase(g.c)
     IN /\ optind' = g.optind
        /\ nextchar' = g.nextchar
        /\ verbosity' = IF case = "q" THEN VERB_NONE
                        ELSE IF case = "v" THEN Verbose(verbosity)
                        ELSE verbosity
        /\ bb_config' =
             IF case = "X"
             THEN [bb_config EXCEPT !.x_display = Snprintf(BUFFER_SIZE, g.optarg)]
             ELSE IF case = "l"
             THEN [bb_config EXCEPT !.ld_path = Snprintf(BUFFER_SIZE, g.optarg)]
             ELSE IF case = "u"
             THEN [bb_config EXCEPT !.socket_path = Snprintf(BUFFER_SIZE, g.optarg)]
             ELSE IF case = "m"
             THEN [bb_config EXCEPT !.vgl_compress = Snprintf(BUFFER_SIZE, g.optarg)]
             ELSE bb_config
        /\ usage' = (usage \/ case \in {"h", "default"})
        /\ exitStatus' = IF case = "h" THEN EXIT_SUCCESS
                         ELSE IF case = "default" THEN EXIT_FAILURE
                         ELSE exitStatus
        /\ pc' = IF case \in {"h", "default"} THEN "exited"
                 ELSE IF case = EOF THEN "runmode"
                 ELSE "getopt"
  /\ UNCHANGED <<argv, runmode, io, procs, connects, stopped, sigLog, termInLoop,
                 bb_socket>>

\* Status mode when no application is given, then bb_init_log.
SetRunmode ==
  /\ pc = "runmode"
  /\ runmode' = ResolveRunmode(runmode, optind, argc)
  /\ \E logFailed \in BOOLEAN :
       IF logFailed
       THEN pc' = "exited" /\ exitStatus' = 1
       ELSE pc' = "connect" /\ exitStatus' = exitStatus
  /\ UNCHANGED <<parse, bb_config, verbosity, io, procs, hist, bb_socket>>

\* Connect to the listening daemon; give up when that fails.
Connect ==
  /\ pc = "connect"
  /\ \E s \in socketConnectResults :
       /\ connects' = Append(connects, s)
       /\ bb_socket' = s
       /\ IF ConnectFailed(s)
          THEN pc' = "exited" /\ exitStatus' = EXIT_FAILURE
          ELSE pc' = "status_req" /\ exitStatus' = exitStatus
  /\ UNCHANGED <<parse, conf, io, procs, stopped, usage, sigLog, termInLoop>>

\* if (runmode == BB_RUN_STATUS): write the status request.
RequestStatus ==
  /\ pc = "status_req"
  /\ IF runmode = BB_RUN_STATUS
     THEN \E w \in socketWriteResults(bb_socket) :
            /\ sent' = IF w.written THEN Append(sent, StatusRequest) ELSE sent
            /\ bb_socket' = w.sock
            /\ pc' = "status_loop"
     ELSE /\ pc' = "app_req"
          /\ UNCHANGED <<sent, bb_socket>>
  /\ UNCHANGED <<parse, conf, buffer, r, reads, readCalled, printed, dispatched, procs,
                 hist, exitStatus>>

\* while (bb_socket != -1) of the status loop.
StatusLoop ==
  /\ pc = "status_loop"
  /\ pc' = IF bb_socket # SOCK_CLOSED THEN "status_read" ELSE "app_req"
  /\ UNCHANGED <<parse, conf, io, procs, hist, bb_socket, exitStatus>>

\* r = socketRead(...) in either loop.
Read(from, to) ==
  /\ pc = from
  /\ \E res \in socketReadResults(bb_socket) :
       /\ r' = res.r
       /\ buffer' = IF res.r > 0 THEN res.data ELSE buffer
       /\ reads' = IF res.r > 0 THEN reads + 1 ELSE reads
       /\ bb_socket' = res.sock
  /\ readCalled' = TRUE
  /\ pc' = to
  /\ UNCHANGED <<parse, conf, sent, printed, dispatched, procs, hist, exitStatus>>

StatusRead == Read("status_read", "status_print")

\* if (r > 0): print the status and close the socket.
StatusPrint ==
  /\ pc = "status_print"
  /\ bb_socket' = IF StatusPrints(r) THEN socketClose(bb_socket) ELSE bb_socket
  /\ printed' = IF StatusPrints(r) THEN Append(printed, buffer) ELSE printed
  /\ pc' = "status_loop"
  /\ UNCHANGED <<parse, conf, buffer, r, sent, reads, readCalled, dispatched, procs, hist,
                 exitStatus>>

\* if (runmode == BB_RUN_APP): write the availability request.
RequestApp ==
  /\ pc = "app_req"
  /\ IF runmode = BB_RUN_APP
     THEN \E w \in socketWriteResults(bb_socket) :
            /\ sent' = IF w.written THEN Append(sent, AppRequest) ELSE sent
            /\ bb_socket' = w.sock
            /\ pc' = "app_loop"
     ELSE /\ pc' = "stop_all"
          /\ UNCHANGED <<sent, bb_socket>>
  /\ UNCHANGED <<parse, conf, buffer, r, reads, readCalled, printed, dispatched, procs,
                 hist, exitStatus>>

\* while (bb_socket != -1) of the application loop.
AppLoop ==
  /\ pc = "app_loop"
  /\ pc' = IF bb_socket # SOCK_CLOSED THEN "app_read" ELSE "stop_all"
  /\ UNCHANGED <<parse, conf, io, procs, hist, bb_socket, exitStatus>>

AppRead == Read("app_read", "app_dispatch")

\* if (r > 0) switch (buffer[0]), up to the first spawn of the branch.
AppDispatch ==
  /\ pc = "app_dispatch"
  /\ IF r > 0
     THEN LET case == Dispatch(buffer)
          IN /\ bb_socket' = SocketAfterCase(case, bb_socket)
             /\ dispatched' = Append(dispatched, buffer[1])
             /\ pc' = IF case = "N" THEN AfterAllow
                      ELSE IF case = "Y"
                      THEN (IF NeedsVglclient(bb_config) THEN "fork_client"
                            ELSE "build_args")
                      ELSE "app_loop"
     ELSE pc' = AfterEmptyRead /\ bb_socket' = bb_socket /\ dispatched' = dispatched
  /\ UNCHANGED <<parse, conf, buffer, r, sent, reads, readCalled, printed, procs, hist,
                 exitStatus>>

\* bb_run_exec(argv + optind): the process image is replaced, or the
\* failure is reported and the process exits.
RunExec ==
  /\ pc = "exec"
  /\ spawns' = Append(spawns, [op |-> "bb_run_exec", args |-> ExecArgs(argv, optind)])
  /\ \E ok \in BOOLEAN :
       IF ok
       THEN pc' = "replaced" /\ exitStatus' = exitStatus
       ELSE pc' = "exited" /\ exitStatus' = bb_run_exec_failure
  /\ UNCHANGED <<parse, conf, io, vglrun_args, children, wrapperStatus, hist, bb_socket>>

\* bb_run_fork(vglclient_args): the detached companion, started or not.
ForkClient ==
  /\ pc = "fork_client"
  /\ spawns' = Append(spawns, [op |-> "bb_run_fork", args |-> vglclient_args])
  /\ \E ok \in BOOLEAN :
       /\ children' = IF ok THEN children \cup {"vglclient"} ELSE children
       /\ pc' = AfterForkClient(ok)
  /\ UNCHANGED <<parse, conf, io, vglrun_args, wrapperStatus, hist, bb_socket, exitStatus>>

\* malloc and fill vglrun_args.
BuildArgs ==
  /\ pc = "build_args"
  /\ vglrun_args' = BuildVglrunArgs(bb_config, argv, optind)
  /\ pc' = "fork_wait"
  /\ UNCHANGED <<parse, conf, io, children, spawns, wrapperStatus, hist, bb_socket,
                 exitStatus>>

\* bb_run_fork_wait(vglrun_args): the wrapper is started and waited for,
\* or could not be started.
ForkWait ==
  /\ pc = "fork_wait"
  /\ spawns' = Append(spawns, [op |-> "bb_run_fork_wait", args |-> vglrun_args])
  /\ \E ok \in BOOLEAN :
       IF ok
       THEN children' = children \cup {"vglrun"} /\ pc' = "waiting"
       ELSE children' = children /\ pc' = "close_after_wait"
  /\ UNCHANGED <<parse, conf, io, vglrun_args, wrapperStatus, hist, bb_socket,
                 exitStatus>>

\* The wrapper exits and bb_run_fork_wait returns its status.
WrapperExit ==
  /\ pc = "waiting"
  /\ \E st \in ChildStatuses : wrapperStatus' = st
  /\ children' = children \ {"vglrun"}
  /\ pc' = "close_after_wait"
  /\ UNCHANGED <<parse, conf, io, vglrun_args, spawns, hist, bb_socket, exitStatus>>

\* socketClose after bb_run_fork_wait in case 'Y'.
CloseAfterWait ==
  /\ pc = "close_after_wait"
  /\ bb_socket' = socketClose(bb_socket)
  /\ pc' = "app_loop"
  /\ UNCHANGED <<parse, conf, io, procs, hist, exitStatus>>

\* bb_closelog and bb_stop_all: every process still tracked is stopped.
StopAll ==
  /\ pc = "stop_all"
  /\ stopped' = TRUE
  /\ children' = {}
  /\ pc' = "return"
  /\ UNCHANGED <<parse, conf, io, vglrun_args, spawns, wrapperStatus, connects, usage,
                 sigLog, termInLoop, bb_socket, exitStatus>>

\* return (EXIT_SUCCESS)
Return ==
  /\ pc = "return"
  /\ exitStatus' = MainReturn
  /\ pc' = "exited"
  /\ UNCHANGED <<parse, conf, io, procs, hist, bb_socket>>

Main ==
  \/ ParseOption \/ SetRunmode \/ Connect
  \/ RequestStatus \/ StatusLoop \/ StatusRead \/ StatusPrint
  \/ RequestApp \/ AppLoop \/ AppRead \/ AppDispatch
  \/ RunExec \/ ForkClient \/ BuildArgs \/ ForkWait \/ WrapperExit
  \/ CloseAfterWait \/ StopAll \/ Return

Next == Main \/ Signal

Spec == Init /\ [][Next]_vars

\* The scheduler keeps running main, and a started wrapper exits.
FairSpec == Spec /\ WF_vars(Main)

TypeOK ==
  /\ bb_socket \in {0, SOCK_FD, SOCK_CLOSED}
  /\ runmode \in {BB_RUN_APP, BB_RUN_STATUS}
  /\ verbosity \in {VERB_NONE, VERB_WARN, VERB_INFO, VERB_DEBUG}
  /\ optind \in 1..(argc)
  /\ exitStatus \in {NoStatus, 0, 1}

(* ------------------------------------------------------------------ *)
(* Properties                                                          *)
(* ------------------------------------------------------------------ *)
\* Number of the user's trailing arguments, argv[optind .. argc - 1].
NTrailing == argc - optind

\* A reply with data was received in application mode and begins with b.
VerdictIs(b) == runmode = BB_RUN_APP /\ reads > 0 /\ buffer[1] = b

\* Application mode, reply received, first byte neither 'Y' nor 'N'.
VerdictUnknown == runmode = BB_RUN_APP /\ reads > 0 /\ buffer[1] \notin {"Y", "N"}

SpawnsOf(op) == {i \in DOMAIN spawns : spawns[i].op = op}

\* v holds exactly the trailing arguments from slot `from` on, then NULL.
HoldsTrailing(v, from) ==
  /\ Len(v) = from + NTrailing
  /\ \A k \in 1..NTrailing : v[from - 1 + k] = argv[optind + k]
  /\ v[from + NTrailing] = NULL

\* C1: on an Allow verdict ('N') the vector handed to bb_run_exec is
\* exactly the trailing arguments argv[optind .. argc - 1], same length and
\* order, and bb_run_exec is the one spawn operation of the run.
C1_AllowExecArgs ==
  /\ \A i \in SpawnsOf("bb_run_exec") : HoldsTrailing(spawns[i].args, 1)
  /\ (VerdictIs("N") /\ pc \in {"exited", "replaced"})
       => (Len(spawns) = 1 /\ spawns[1].op = "bb_run_exec")

C1_Witness ==
  /\ VerdictIs("N")
  /\ pc = "replaced"
  /\ NTrailing = 2
  /\ spawns[1].op = "bb_run_exec"
  /\ Len(spawns[1].args) = 3

\* C2: on a Redirect verdict ('Y') the vector passed to bb_run_fork_wait is
\* "vglrun", "-c", method, "-d", display, "-ld", driver path, "--", then
\* the trailing arguments unchanged and in order, then the terminator.
C2_RedirectWrapperArgs ==
  /\ \A i \in SpawnsOf("bb_run_fork_wait") :
       LET v == spawns[i].args
       IN /\ SubSeq(v, 1, 8) = <<STR_vglrun, STR_c, bb_config.vgl_compress, STR_d,
                                 bb_config.x_display, STR_ld, bb_config.ld_path,
                                 STR_dashdash>>
          /\ HoldsTrailing(v, 9)
  /\ (VerdictIs("Y") /\ pc \in {"waiting", "close_after_wait", "stop_all", "return",
                                "exited"})
       => Cardinality(SpawnsOf("bb_run_fork_wait")) = 1

C2_Witness ==
  /\ VerdictIs("Y")
  /\ pc = "waiting"
  /\ NTrailing = 2
  /\ SpawnsOf("bb_run_fork_wait") # {}
  /\ Len(vglrun_args) = 11

\* C3: on a Redirect verdict the companion "vglclient -detach" is spawned
\* exactly when the compression method is not literally "proxy", always
\* before the wrapper; with "proxy" the wrapper is the only spawn.
C3_CompanionIffNotProxy ==
  /\ \A i \in SpawnsOf("bb_run_fork") :
       /\ spawns[i].args = <<STR_vglclient, STR_detach, NULL>>
       /\ bb_config.vgl_compress # STR_proxy
       /\ \A j \in SpawnsOf("bb_run_fork_wait") : i < j
  /\ SpawnsOf("bb_run_fork_wait") # {}
       => /\ (SpawnsOf("bb_run_fork") # {}) <=> (bb_config.vgl_compress # STR_proxy)
          /\ bb_config.vgl_compress = STR_proxy => Len(spawns) = 1

\* The near miss "prox" gets a companion, then the wrapper.
C3_Witness ==
  /\ VerdictIs("Y")
  /\ bb_config.vgl_compress = STR_prox
  /\ Len(spawns) = 2
  /\ spawns[1].op = "bb_run_fork"
  /\ spawns[2].op = "bb_run_fork_wait"

\* C4: on an Unknown verdict (first byte neither 'Y' nor 'N') no spawn
\* operation is invoked, the connection is closed once the reply has been
\* dispatched, and the client exits without running the command.
C4_UnknownNoSpawn ==
  VerdictUnknown =>
    /\ spawns = <<>>
    /\ children = {}
    /\ pc # "replaced"
    /\ pc # "app_dispatch" => bb_socket = SOCK_CLOSED
    /\ pc \in {"app_dispatch", "app_loop", "stop_all", "return", "exited"}

C4_Witness ==
  /\ VerdictUnknown
  /\ buffer[1] = "y"
  /\ pc = "exited"
  /\ stopped
  /\ spawns = <<>>

\* Option parsing is over and the run mode has been resolved.
ModeResolved == pc \notin {"getopt", "runmode"} /\ ~usage

\* C5: with no trailing command (optind >= argc) the run mode is Status,
\* only "Status?" is ever written and nothing is spawned; with a trailing
\* command the mode stays RunApplication and only the availability
\* request is written.
C5_ModeAndRequest ==
  /\ ModeResolved =>
       runmode = (IF optind >= argc THEN BB_RUN_STATUS ELSE BB_RUN_APP)
  /\ runmode = BB_RUN_STATUS =>
       /\ \A i \in DOMAIN sent : sent[i] = StatusRequest
       /\ spawns = <<>>
  /\ runmode = BB_RUN_APP => \A i \in DOMAIN sent : sent[i] = AppRequest
  /\ Len(sent) <= 1

C5_Witness ==
  /\ optind >= argc
  /\ runmode = BB_RUN_STATUS
  /\ sent = <<StatusRequest>>
  /\ reads > 0
  /\ pc = "exited"

\* C6: a terminating signal delivered in a read loop, connection open and
\* no reply received, closes the connection for good, and from there the
\* loop ends and bb_stop_all runs before the process exits.
C6_SignalInReadLoop ==
  /\ [](termInLoop => (bb_socket = SOCK_CLOSED /\ (pc = "exited" => stopped)))
  /\ (termInLoop ~> (pc = "exited" /\ stopped))

C6_Witness ==
  /\ termInLoop
  /\ pc = "exited"
  /\ stopped
  /\ sent # <<>>
  /\ reads = 0

\* C7: on a Redirect verdict the client's exit status propagates the
\* wrapper's: a wrapper exiting nonzero makes the client exit nonzero.
C7_WrapperStatusPropagated ==
  (pc = "exited" /\ VerdictIs("Y") /\ wrapperStatus \notin {NoStatus, 0})
    => exitStatus # 0

\* C8: on an Allow verdict, when bb_run_exec does not take over the
\* process, the client exits with a nonzero status; it never exits 0 with
\* the requested command not executed.
C8_ExecFailureStatus ==
  (VerdictIs("N") /\ pc = "exited") => exitStatus # 0

C8_Witness ==
  /\ VerdictIs("N")
  /\ pc = "exited"
  /\ SpawnsOf("bb_run_exec") # {}
  /\ exitStatus = EXIT_FAILURE

\* C9: when the connection attempt fails (negative handle) there is no
\* second attempt, no request written, no read, no spawn, and the client
\* exits with a nonzero status.
C9_ConnectFailure ==
  (connects # <<>> /\ connects[1] < 0) =>
    /\ Len(connects) = 1
    /\ sent = <<>>
    /\ ~readCalled
    /\ spawns = <<>>
    /\ pc = "exited"
    /\ exitStatus # 0

C9_Witness ==
  /\ connects = <<SOCK_CLOSED>>
  /\ pc = "exited"
  /\ exitStatus = EXIT_FAILURE
  /\ NTrailing > 0

\* C10: the flag -q is accepted by option parsing and sets verbosity to
\* Quiet; it does not take the unrecognized-option path.
C10_QuietAccepted ==
  (argc >= 2 /\ argv[2] = <<"-", "q">> /\ optind = 2 /\ nextchar = 0)
    => (verbosity = VERB_NONE /\ ~usage /\ pc # "exited")

\* C11: each -v raises verbosity one step and never lowers it: from Warn,
\* one -v gives Info, two give Debug, and k >= 2 occurrences give Debug.
\* (The words consumed so far, argv[1 .. optind - 1] in C, are all -v.)
C11_VerboseSteps ==
  (nextchar = 0 /\ ~usage /\ \A i \in 2..optind : argv[i] = <<"-", "v">>)
    => verbosity = (IF optind - 1 = 0 THEN VERB_WARN
                    ELSE IF optind - 1 = 1 THEN VERB_INFO
                    ELSE VERB_DEBUG)

\* C12: in status mode every reply with data is printed as a status line
\* and the client closes the connection itself right after the first one,
\* so at most one line is printed and the loop ends without the daemon
\* closing.
C12_StatusPrintsOnce ==
  runmode = BB_RUN_STATUS =>
    /\ reads <= 1
    /\ Len(printed) <= 1
    /\ \A i \in DOMAIN printed : printed[i] = buffer
    /\ pc # "status_print" => Len(printed) = reads
    /\ (reads > 0 /\ pc # "status_print") =>
         /\ bb_socket = SOCK_CLOSED
         /\ pc \in {"status_loop", "app_req", "stop_all", "return", "exited"}

C12_Witness ==
  /\ runmode = BB_RUN_STATUS
  /\ reads = 1
  /\ printed = <<buffer>>
  /\ buffer = <<"y">>
  /\ stopped
  /\ pc = "exited"

\* C13: once a terminating signal has been handled, at whatever point of
\* main, no spawn operation is started any more.
C13_NoSpawnAfterTermSignal ==
  [][("received" \in sigLog) => (spawns' = spawns)]_vars

\* C14: the connection only moves forward, Disconnected -> Connected ->
\* Closed: a closed socket is never connected again, socketConnect runs at
\* most once, and the socket is not closed while still Disconnected.
C14_ConnectionForwardOnly ==
  [][/\ (bb_socket = SOCK_CLOSED) => (bb_socket' = SOCK_CLOSED)
     /\ Len(connects') <= 1
     /\ (connects' = <<>>) => (bb_socket' # SOCK_CLOSED)]_vars

\* C15: in application mode at most one reply is classified per run: a
\* read without data dispatches nothing, the first reply with data is
\* dispatched on its first byte, and every branch leaves the connection
\* closed when it finishes, so no second reply is read or dispatched.
C15_OneDispatch ==
  /\ Len(dispatched) <= 1
  /\ runmode = BB_RUN_APP => reads <= 1
  /\ runmode = BB_RUN_STATUS => dispatched = <<>>
  /\ reads = 0 => (dispatched = <<>> /\ spawns = <<>>)
  /\ \A i \in DOMAIN dispatched : dispatched[i] = buffer[1]
  /\ dispatched # <<>> =>
       /\ pc \notin {"app_read", "app_dispatch"}
       /\ pc \in {"exec", "app_loop", "stop_all", "return", "exited", "replaced"}
            => bb_socket = SOCK_CLOSED

C15_Witness ==
  /\ dispatched = <<"Y">>
  /\ reads = 1
  /\ wrapperStatus = 1
  /\ stopped
  /\ pc = "exited"

\* What a run of the handler leaves alone: main's position, the parsed
\* command line, the configuration and run mode, the reply state, the
\* processes and spawns, and the exit status.
HandlerFrame ==
  /\ pc' = pc
  /\ UNCHANGED <<parse, conf, io, procs>>
  /\ UNCHANGED <<connects, stopped, usage, exitStatus>>

\* C16: the handler never spawns, terminates or reaps a process and never
\* changes the configuration or run mode: a hangup leaves the connection
\* and all other state unchanged, a terminating signal changes only the
\* connection, to Closed; a wrapper being waited for is not killed by it.
\* (A step that does not advance main is a signal delivery.)
C16_HandlerFrame ==
  [][/\ ("ignoring" \in sigLog' /\ "ignoring" \notin sigLog)
          => (HandlerFrame /\ bb_socket' = bb_socket)
     /\ ("received" \in sigLog' /\ "received" \notin sigLog)
          => (HandlerFrame /\ bb_socket' = SOCK_CLOSED)
     /\ (pc' = pc /\ UNCHANGED parse)
          => (HandlerFrame /\ bb_socket' \in {bb_socket, SOCK_CLOSED})]_vars

\* A terminating signal has been handled and the wrapper is still running
\* and waited for, next to the companion.
C16_Witness ==
  /\ pc = "waiting"
  /\ sigLog = {"ignoring", "received"}
  /\ bb_socket = SOCK_CLOSED
  /\ children = {"vglclient", "vglrun"}

\* C17 as stated: once a reply with data has been received, the run ends
\* with bb_stop_all run and the client exited.
C17_ReplyEndsInStopAll ==
  (reads > 0 /\ pc \in {"exited", "replaced"}) => (stopped /\ pc = "exited")

\* C17, amended: a read loop is left exactly when the connection is
\* closed (so with the connection open and no data the client stays in
\* it); and once the connection is closed in a loop, or a reply with data
\* has arrived, the client reaches bb_stop_all and exits - except on an
\* Allow verdict, where bb_run_exec replaces or ends the process, and given
\* that a started wrapper exits.
C17_LoopLeftWhenClosed ==
  /\ [][/\ (pc \in ReadLoopPcs /\ pc' \in {"app_req", "stop_all"})
             => bb_socket = SOCK_CLOSED
        /\ (pc \in {"status_loop", "app_loop"} /\ pc' # pc /\ bb_socket = SOCK_CLOSED)
             => pc' \in {"app_req", "stop_all"}]_vars
  /\ (((reads > 0 \/ (pc \in ReadLoopPcs /\ bb_socket = SOCK_CLOSED))
         /\ ~VerdictIs("N"))
        ~> (stopped /\ pc = "exited"))

\* The peer closed the connection before any reply; no signal involved.
C17_Witness ==
  /\ readCalled
  /\ reads = 0
  /\ sent # <<>>
  /\ sigLog = {}
  /\ bb_socket = SOCK_CLOSED
  /\ stopped
  /\ pc = "exited"

\* C18: for every number n >= 0 of trailing arguments (every split point
\* oi of the command line, n = argc - oi) the wrapper vector is allocated
\* with 8 + n + 1 slots, every store goes to a slot in 0 .. 8 + n, the
\* terminator is stored at slot 8 + n and nowhere else, and no slot below
\* it is left unwritten; the vector main builds is the result of these
\* stores.
C18_SlotAccounting ==
  /\ \A oi \in 1..argc :
       LET n == argc - oi
           w == VglrunWrites(bb_config, argv, oi)
           slots == VglrunSlots(argc, oi)
       IN /\ slots = 8 + n + 1
          /\ \A i \in DOMAIN w : w[i].slot \in 0..(8 + n) /\ w[i].slot < slots
          /\ \A sl \in 0..(8 + n) : \E i \in DOMAIN w : w[i].slot = sl
          /\ \A i \in DOMAIN w : (w[i].value = NULL) <=> (w[i].slot = 8 + n)
  /\ vglrun_args # <<>> =>
       LET w == VglrunWrites(bb_config, argv, optind)
       IN /\ Len(vglrun_args) = VglrunSlots(argc, optind)
          /\ \A i \in DOMAIN w : vglrun_args[w[i].slot + 1] = w[i].value

C18_Witness ==
  /\ pc = "fork_wait"
  /\ NTrailing = 1
  /\ Len(vglrun_args) = 10
  /\ vglrun_args[9] = <<"a", "p", "p">>
  /\ vglrun_args[10] = NULL

\* C19: a companion that could not be started is not fatal: whether or
\* not bb_run_fork succeeds, the wrapper is spawned and waited for with the
\* same argument vector, and the connection is closed afterwards.
C19_CompanionFailureNonFatal ==
  (SpawnsOf("bb_run_fork") # {}
   /\ pc \in {"waiting", "close_after_wait", "app_loop", "stop_all", "return", "exited"})
    => /\ \E j \in SpawnsOf("bb_run_fork_wait") :
            /\ SubSeq(spawns[j].args, 1, 8) =
                 <<STR_vglrun, STR_c, bb_config.vgl_compress, STR_d,
                   bb_config.x_display, STR_ld, bb_config.ld_path, STR_dashdash>>
            /\ HoldsTrailing(spawns[j].args, 9)
       /\ pc \in {"app_loop", "stop_all", "return", "exited"}
            => bb_socket = SOCK_CLOSED

\* The companion was not started (it is not among the children), the
\* wrapper runs and is waited for.
C19_Witness ==
  /\ pc = "waiting"
  /\ spawns[1].op = "bb_run_fork"
  /\ spawns[2].op = "bb_run_fork_wait"
  /\ children = {"vglrun"}

\* C20: whenever a spawn operation for the user's command is invoked
\* (bb_run_exec, bb_run_fork_wait) the trailing arguments are not empty:
\* without a trailing command the run is in status mode and spawns
\* nothing, so the vector of bb_run_exec has a first word and the wrapper's
\* vector has a word after "--".
C20_CommandNonEmpty ==
  /\ \A i \in SpawnsOf("bb_run_exec") :
       /\ NTrailing >= 1
       /\ Len(spawns[i].args) >= 2
       /\ spawns[i].args[1] # NULL
  /\ \A i \in SpawnsOf("bb_run_fork_wait") :
       /\ NTrailing >= 1
       /\ Len(spawns[i].args) >= 10
       /\ spawns[i].args[8] = STR_dashdash
       /\ spawns[i].args[9] # NULL
  /\ (ModeResolved /\ optind >= argc) => (runmode = BB_RUN_STATUS /\ spawns = <<>>)

C20_Witness ==
  /\ pc = "replaced"
  /\ argv = <<ProgName, STR_dashdash, <<"a", "p", "p">>>>
  /\ spawns = <<[op |-> "bb_run_exec", args |-> <<<<"a", "p", "p">>, NULL>>]>>

====
